---------------------------- MODULE Spec2Model ----------------------------
(***************************************************************************)
(* HWP gripper data acquisition on the BeagleBone.                         *)
(*                                                                         *)
(* Three programs share the PRU shared data RAM:                           *)
(*   - GripperEncoder.c   (PRU0) samples the encoder lines into a double   *)
(*                        buffer and publishes a slot through              *)
(*                        encoder_ready;                                   *)
(*   - LimitSwitches.c    (PRU1) publishes one record per limit event      *)
(*                        through limit_ready;                             *)
(*   - BeagleboneGripper.c (ARM) polls the ready words, copies the         *)
(*                        published slot, clears the ready word and sends  *)
(*                        the copy as a UDP datagram.                      *)
(*                                                                         *)
(* Each program is a process whose program counter (pcE, pcL, pcH) walks   *)
(* the statements of its main().  One action is one access to memory the   *)
(* other programs can see (a statement that touches only private data is   *)
(* folded into the neighbouring step).  A structure is a tuple of words in *)
(* declaration order, so that the host's structure assignment is a         *)
(* word-by-word copy that the producers' stores can interleave with.       *)
(***************************************************************************)
EXTENDS Integers, Sequences, FiniteSets, TLC

(***************************************************************************)
(* Program constants.                                                      *)
(***************************************************************************)
ENCODER_HEADER == 47824
LIMIT_HEADER == 61453
TIMEOUT_HEADER == 4660
ENCODER_PACKETS_TO_SEND == 1
LIMIT_PACKETS_TO_SEND == 1
ERROR_PACKETS_TO_SEND == 1
ENCODER_TIMEOUT == 10
ENCODER_TIMEOUT_FLAG == 1
\* number of bits of __R31 kept by pru_mask (six input lines)
PRU_MASK_BITS == 6

(***************************************************************************)
(* Bounds of the model.                                                    *)
(***************************************************************************)
\* samples per encoder buffer (120 in the program)
ENCODER_COUNTER_SIZE == 2
\* clock() ticks per second (1000000 on the target)
CLOCKS_PER_SEC == 1
\* width in bits of the IEP counter (32 on the target)
IEP_BITS == 2
\* encoder buffers begun, per specification
MaxEncFills == 3
MaxEncFillsLimit == 1
MaxEncFillsTime == 1
MaxEncFillsClock == 1
\* limit events, per specification
MaxLimEvents == 1
MaxLimEventsLimit == 3
MaxLimEventsClock == 1
\* largest value clock() returns
MaxTime == 23
\* wraps of the IEP counter
MaxWraps == 2
\* largest value left in the overflow word by an earlier run
MaxStaleOverflow == 1
\* encoder buffers, limit events and error reports where the host serves
\* the three channels
MaxEncFillsService == 1
MaxLimEventsService == 1
MaxErrorsService == 1
\* encoder buffers and limit events where both producers publish twice
MaxEncFillsPair == 2
MaxLimEventsPair == 2

VARIABLES
    \* ---- PRU shared data RAM ----
    on,                \* 0x0000: 0 while sampling, 1 to stop
    counter_overflow,  \* 0x0008: wraps of the IEP counter counted so far
    encoder_ready,     \* 0x0010: 0, or slot+1 of the published encoder slot
    encoder_packets,   \* 0x0018: two EncoderInfo
    limit_ready,       \* 0x1850
    limit_packets,     \* 0x1858: two LimitInfo
    error_ready,       \* 0x2000
    error_packets,     \* 0x2008: two ErrorInfo
    \* ---- hardware ----
    iep_cnt,           \* IEP_TMR_CNT
    iep_sts,           \* IEP_TMR_GLB_STS bit 0: the counter has wrapped
    evtout1,           \* PRU_EVTOUT_1 has been raised
    \* ---- GripperEncoder.c ----
    pcE, enc_packet, enc_index,
    \* ---- LimitSwitches.c ----
    pcL, lim_packet,
    \* ---- BeagleboneGripper.c ----
    pcH, hch, cpos, offset,
    encoder_index, limit_index, error_index,
    encoder_to_send, limit_to_send, error_to_send,
    timeout_packet, current_time, encoder_time,
    \* ---- the network: the datagrams sent, in order ----
    sent,
    \* ---- history ----
    encPub,            \* the encoder slots as they stood at each publish
    limPub,            \* the limit slots as they stood at each publish
    limEvents,         \* limit events taken up by the limit producer
    drained,           \* per channel, the drains acknowledged by the host
    wraps,             \* wraps of the IEP counter so far
    ub,                \* the host indexed outside an array
    encWritten,        \* words of the encoder fill slot written since the last publish
    limWritten,        \* the same for the limit producer
    limTickWraps,      \* wraps when the limit record being filled read the counter
    iterLog,           \* the tests, drains and sends of the host's iteration
    errPub             \* the error records reported

shared == <<on, counter_overflow, encoder_ready, encoder_packets,
            limit_ready, limit_packets, error_ready, error_packets>>
hw == <<iep_cnt, iep_sts, evtout1>>
encv == <<pcE, enc_packet, enc_index>>
limv == <<pcL, lim_packet>>
hostv == <<pcH, hch, cpos, offset, encoder_index, limit_index, error_index,
           encoder_to_send, limit_to_send, error_to_send,
           timeout_packet, current_time, encoder_time>>
hist == <<encPub, limPub, limEvents, drained, wraps, ub,
          encWritten, limWritten, limTickWraps, iterLog, errPub>>
vars == <<shared, hw, encv, limv, hostv, sent, hist>>

(***************************************************************************)
(* Structures as tuples of words.                                          *)
(*   EncoderInfo: header, clock[N], clock_overflow[N], state[N]            *)
(*   LimitInfo:   header, clock, clock_overflow, state                     *)
(*   ErrorInfo:   header, error_code                                       *)
(*   TimeoutInfo: header, type                                             *)
(***************************************************************************)
EncoderInfoWords == 1 + 3 * ENCODER_COUNTER_SIZE
LimitInfoWords == 4
ErrorInfoWords == 2

EncClock(i) == 2 + i
EncOverflow(i) == 2 + ENCODER_COUNTER_SIZE + i
EncState(i) == 2 + 2 * ENCODER_COUNTER_SIZE + i
LimClock == 2
LimOverflow == 3
LimState == 4

Zeroed(n) == [w \in 1..n |-> 0]

Pow2(n) == 2 ^ n
IepPeriod == Pow2(IEP_BITS)

\* __R31 & pru_mask in GripperEncoder.c.  The encoder lines are driven with
\* the number of the buffer being filled, so that the samples of different
\* fills differ.
EncoderLines(fill) == fill % Pow2(PRU_MASK_BITS)

\* ~__R31 & pru_mask in LimitSwitches.c for the k-th limit event (nonzero).
LimitLines(k) == 1 + ((k - 1) % (Pow2(PRU_MASK_BITS) - 1))

Max(a, b) == IF a >= b THEN a ELSE b


(***************************************************************************)
(* The state when the host enters its loop (BeagleboneGripper.c line 192): *)
(* the host has zeroed the buffers and the ready words and cleared 'on',   *)
(* both PRU programs have been started and have yet to run their first     *)
(* statement.  The host does not write the overflow word, and the IEP      *)
(* counter and its overflow flag are whatever the hardware holds.          *)
(***************************************************************************)
InitWith(overflows, counts, flags) ==
    /\ on = 0
    /\ counter_overflow \in overflows
    /\ encoder_ready = 0
    /\ encoder_packets = [s \in 0..1 |-> Zeroed(EncoderInfoWords)]
    /\ limit_ready = 0
    /\ limit_packets = [s \in 0..1 |-> Zeroed(LimitInfoWords)]
    /\ error_ready = 0
    /\ error_packets = [s \in 0..1 |-> Zeroed(ErrorInfoWords)]
    /\ iep_cnt \in counts
    /\ iep_sts \in flags
    /\ evtout1 = FALSE
    /\ pcE = "e_init" /\ enc_packet = 0 /\ enc_index = 0
    /\ pcL = "l_init" /\ lim_packet = 0
    /\ pcH = "while" /\ hch = 1 /\ cpos = 1 /\ offset = 0
    /\ encoder_index = 0 /\ limit_index = 0 /\ error_index = 0
    /\ encoder_to_send = [k \in 0..(ENCODER_PACKETS_TO_SEND - 1) |-> Zeroed(EncoderInfoWords)]
    /\ limit_to_send = [k \in 0..(LIMIT_PACKETS_TO_SEND - 1) |-> Zeroed(LimitInfoWords)]
    /\ error_to_send = [k \in 0..(ERROR_PACKETS_TO_SEND - 1) |-> Zeroed(ErrorInfoWords)]
    /\ timeout_packet = <<TIMEOUT_HEADER, 0>>
    /\ current_time = 0
    /\ encoder_time = 0
    /\ sent = <<>>
    /\ encPub = <<>>
    /\ limPub = <<>>
    /\ limEvents = 0
    /\ drained = [c \in 1..3 |-> 0]
    /\ wraps = 0
    /\ ub = FALSE
    /\ encWritten = {}
    /\ limWritten = {}
    /\ limTickWraps = -1
    /\ iterLog = <<>>
    /\ errPub = <<>>

Init == InitWith({0}, {0}, {0})

InitClock == InitWith(0..MaxStaleOverflow, 0..(IepPeriod - 1), {0, 1})

(***************************************************************************)
(* Environment.                                                            *)
(***************************************************************************)
\* The IEP counter counts one cycle.  A wrap sets the overflow flag.  The
\* period of the counter (2^32 cycles) is far longer than one pass of the
\* encoder loop, so the counter does not wrap again while the flag of the
\* previous wrap is still pending.
IepTick(maxWraps) ==
    /\ iep_cnt' = (iep_cnt + 1) % IepPeriod
    /\ IF iep_cnt = IepPeriod - 1
       THEN /\ wraps < maxWraps
            /\ iep_sts = 0
            /\ iep_sts' = 1
            /\ wraps' = wraps + 1
       ELSE UNCHANGED <<iep_sts, wraps>>
    /\ UNCHANGED <<shared, evtout1, encv, limv, hostv, sent,
                   encPub, limPub, limEvents, drained, ub,
                   encWritten, limWritten, limTickWraps, iterLog, errPub>>

\* 'on' is set to 1 from outside the three programs.
StopRequest ==
    /\ on = 0
    /\ on' = 1
    /\ UNCHANGED <<counter_overflow, encoder_ready, encoder_packets,
                   limit_ready, limit_packets, error_ready, error_packets,
                   hw, encv, limv, hostv, sent, hist>>

\* The error channel is written from outside the three programs: an
\* ErrorInfo with the number of the report as its error code is put into the
\* slots in turn, and error_ready is set to the slot plus 1, which is how the
\* host reads the word (BeagleboneGripper.c lines 212-216).
ErrorReport(maxErrors) ==
    /\ Len(errPub) < maxErrors
    /\ LET slot == Len(errPub) % 2
           info == [error_packets[slot] EXCEPT ![2] = Len(errPub) + 1]
       IN  /\ error_packets' = [error_packets EXCEPT ![slot] = info]
           /\ error_ready' = slot + 1
           /\ errPub' = Append(errPub, info)
    /\ UNCHANGED <<on, counter_overflow, encoder_ready, encoder_packets,
                   limit_ready, limit_packets,
                   hw, encv, limv, hostv, sent,
                   encPub, limPub, limEvents, drained, wraps, ub,
                   encWritten, limWritten, limTickWraps, iterLog>>

(***************************************************************************)
(* GripperEncoder.c                                                        *)
(***************************************************************************)
EncFill == Len(encPub) + 1

\* lines 66-67 without the headers of lines 69-70
EncInitNoHeader ==
    /\ pcE = "e_init"
    /\ encoder_ready' = 0
    /\ counter_overflow' = 0
    /\ pcE' = "e_cfg"
    /\ UNCHANGED <<on, encoder_packets,
                   limit_ready, limit_packets, error_ready, error_packets,
                   hw, enc_packet, enc_index, limv, hostv, sent, hist>>

\* lines 66-70
EncInit ==
    /\ pcE = "e_init"
    /\ encoder_ready' = 0
    /\ counter_overflow' = 0
    /\ encoder_packets' = [s \in 0..1 |->
                              [encoder_packets[s] EXCEPT ![1] = ENCODER_HEADER]]
    /\ pcE' = "e_cfg"
    /\ UNCHANGED <<on, limit_ready, limit_packets, error_ready, error_packets,
                   hw, enc_packet, enc_index, limv, hostv, sent, hist>>

\* lines 73-77.  The wraps are counted from here: the overflow word has been
\* zeroed and the flag of any earlier wrap is cleared.
EncConfig ==
    /\ pcE = "e_cfg"
    /\ iep_sts' = 0
    /\ wraps' = 0
    /\ pcE' = "e_while"
    /\ UNCHANGED <<shared, iep_cnt, evtout1, enc_packet, enc_index,
                   limv, hostv, sent, encPub, limPub, limEvents, drained, ub,
                   encWritten, limWritten, limTickWraps, iterLog, errPub>>

\* line 81.  A buffer beyond the bound is not begun.
EncWhile(maxFills) ==
    /\ pcE = "e_while"
    /\ IF on = 0
       THEN /\ enc_index > 0 \/ EncFill <= maxFills
            /\ pcE' = "e_sts"
       ELSE pcE' = "e_halt"
    /\ UNCHANGED <<shared, hw, enc_packet, enc_index, limv, hostv, sent, hist>>

\* lines 82-85, one statement at a time: the test of the overflow flag, the
\* increment of the overflow word, the write that clears the flag.
EncCountOverflow ==
    /\ pcE \in {"e_sts", "e_inc", "e_clr"}
    /\ CASE pcE = "e_sts" ->
              /\ pcE' = IF iep_sts = 1 THEN "e_inc" ELSE "e_clk"
              /\ UNCHANGED <<counter_overflow, iep_sts>>
         [] pcE = "e_inc" ->
              /\ counter_overflow' = counter_overflow + 1
              /\ pcE' = "e_clr"
              /\ UNCHANGED iep_sts
         [] pcE = "e_clr" ->
              /\ iep_sts' = 0
              /\ pcE' = "e_clk"
              /\ UNCHANGED counter_overflow
    /\ UNCHANGED <<on, encoder_ready, encoder_packets,
                   limit_ready, limit_packets, error_ready, error_packets,
                   iep_cnt, evtout1, enc_packet, enc_index,
                   limv, hostv, sent, hist>>

\* line 87
EncSampleClock ==
    /\ pcE = "e_clk"
    /\ encoder_packets' = [encoder_packets EXCEPT
                             ![enc_packet][EncClock(enc_index)] = iep_cnt]
    /\ encWritten' = encWritten \cup {EncClock(enc_index)}
    /\ pcE' = "e_ovf"
    /\ UNCHANGED <<on, counter_overflow, encoder_ready,
                   limit_ready, limit_packets, error_ready, error_packets,
                   hw, enc_packet, enc_index, limv, hostv, sent, encPub, limPub, limEvents, drained, wraps, ub,
                   limWritten, limTickWraps, iterLog, errPub>>

\* line 88
EncSampleOverflow ==
    /\ pcE = "e_ovf"
    /\ encoder_packets' = [encoder_packets EXCEPT
                             ![enc_packet][EncOverflow(enc_index)] =
                                 counter_overflow + iep_sts]
    /\ encWritten' = encWritten \cup {EncOverflow(enc_index)}
    /\ pcE' = "e_state"
    /\ UNCHANGED <<on, counter_overflow, encoder_ready,
                   limit_ready, limit_packets, error_ready, error_packets,
                   hw, enc_packet, enc_index, limv, hostv, sent, encPub, limPub, limEvents, drained, wraps, ub,
                   limWritten, limTickWraps, iterLog, errPub>>

\* lines 89-92
EncSampleState ==
    /\ pcE = "e_state"
    /\ encoder_packets' = [encoder_packets EXCEPT
                             ![enc_packet][EncState(enc_index)] =
                                 EncoderLines(EncFill)]
    /\ enc_index' = enc_index + 1
    /\ encWritten' = encWritten \cup {EncState(enc_index)}
    /\ pcE' = IF enc_index + 1 = ENCODER_COUNTER_SIZE THEN "e_pub" ELSE "e_while"
    /\ UNCHANGED <<on, counter_overflow, encoder_ready,
                   limit_ready, limit_packets, error_ready, error_packets,
                   hw, enc_packet, limv, hostv, sent, encPub, limPub, limEvents, drained, wraps, ub,
                   limWritten, limTickWraps, iterLog, errPub>>

\* lines 93-95 without the toggle of 'packet'
EncPublishNoToggle ==
    /\ pcE = "e_pub"
    /\ enc_index' = 0
    /\ encoder_ready' = enc_packet + 1
    /\ encPub' = Append(encPub, encoder_packets[enc_packet])
    /\ encWritten' = {}
    /\ pcE' = "e_while"
    /\ UNCHANGED <<on, counter_overflow, encoder_packets,
                   limit_ready, limit_packets, error_ready, error_packets,
                   hw, enc_packet, limv, hostv, sent,
                   limPub, limEvents, drained, wraps, ub,
                   limWritten, limTickWraps, iterLog, errPub>>

\* lines 93-95
EncPublish ==
    /\ pcE = "e_pub"
    /\ enc_index' = 0
    /\ encoder_ready' = enc_packet + 1
    /\ enc_packet' = 1 - enc_packet
    /\ encPub' = Append(encPub, encoder_packets[enc_packet])
    /\ encWritten' = {}
    /\ pcE' = "e_while"
    /\ UNCHANGED <<on, counter_overflow, encoder_packets,
                   limit_ready, limit_packets, error_ready, error_packets,
                   hw, limv, hostv, sent, limPub, limEvents, drained, wraps, ub,
                   limWritten, limTickWraps, iterLog, errPub>>

\* lines 100-102 with a write that clears 'on' for the next run
EncHaltClearsOn ==
    /\ pcE = "e_halt"
    /\ evtout1' = TRUE
    /\ on' = 0
    /\ pcE' = "halted"
    /\ UNCHANGED <<counter_overflow, encoder_ready, encoder_packets,
                   limit_ready, limit_packets, error_ready, error_packets,
                   iep_cnt, iep_sts, enc_packet, enc_index,
                   limv, hostv, sent, hist>>

\* lines 100-102
EncHalt ==
    /\ pcE = "e_halt"
    /\ evtout1' = TRUE
    /\ pcE' = "halted"
    /\ UNCHANGED <<shared, iep_cnt, iep_sts, enc_packet, enc_index,
                   limv, hostv, sent, hist>>

EncoderPRU(maxFills) ==
    \/ EncInit
    \/ EncConfig
    \/ EncWhile(maxFills)
    \/ EncCountOverflow
    \/ EncSampleClock
    \/ EncSampleOverflow
    \/ EncSampleState
    \/ EncPublish
    \/ EncHalt

(***************************************************************************)
(* LimitSwitches.c                                                         *)
(***************************************************************************)
\* lines 57-60
LimInit ==
    /\ pcL = "l_init"
    /\ limit_ready' = 0
    /\ limit_packets' = [s \in 0..1 |->
                            [limit_packets[s] EXCEPT ![1] = LIMIT_HEADER]]
    /\ pcL' = "l_cfg"
    /\ UNCHANGED <<on, counter_overflow, encoder_ready, encoder_packets,
                   error_ready, error_packets,
                   hw, encv, lim_packet, hostv, sent, hist>>

\* lines 63-67
LimConfig ==
    /\ pcL = "l_cfg"
    /\ iep_sts' = 0
    /\ pcL' = "l_while"
    /\ UNCHANGED <<shared, iep_cnt, evtout1, encv, lim_packet,
                   hostv, sent, hist>>

\* lines 69-70: the loop test, then the test of the limit lines.  With no
\* line active the loop comes back here, which changes nothing.
LimWhile(maxEvents) ==
    /\ pcL = "l_while"
    /\ IF on = 0
       THEN /\ limEvents < maxEvents
            /\ limEvents' = limEvents + 1
            /\ pcL' = "l_clk"
       ELSE /\ pcL' = "l_halt"
            /\ UNCHANGED limEvents
    /\ UNCHANGED <<shared, hw, encv, lim_packet, hostv, sent,
                   encPub, limPub, drained, wraps, ub,
                   encWritten, limWritten, limTickWraps, iterLog, errPub>>

\* line 71
LimSampleClock ==
    /\ pcL = "l_clk"
    /\ limit_packets' = [limit_packets EXCEPT ![lim_packet][LimClock] = iep_cnt]
    /\ limWritten' = limWritten \cup {LimClock}
    /\ limTickWraps' = IF pcE \in {"e_init", "e_cfg"} THEN -1 ELSE wraps
    /\ pcL' = "l_ovf"
    /\ UNCHANGED <<on, counter_overflow, encoder_ready, encoder_packets,
                   limit_ready, error_ready, error_packets,
                   hw, encv, lim_packet, hostv, sent, encPub, limPub, limEvents, drained, wraps, ub,
                   encWritten, iterLog, errPub>>

\* line 72
LimSampleOverflow ==
    /\ pcL = "l_ovf"
    /\ limit_packets' = [limit_packets EXCEPT ![lim_packet][LimOverflow] =
                            counter_overflow + iep_sts]
    /\ limWritten' = limWritten \cup {LimOverflow}
    /\ pcL' = "l_state"
    /\ UNCHANGED <<on, counter_overflow, encoder_ready, encoder_packets,
                   limit_ready, error_ready, error_packets,
                   hw, encv, lim_packet, hostv, sent, encPub, limPub, limEvents, drained, wraps, ub,
                   encWritten, limTickWraps, iterLog, errPub>>

\* line 73
LimSampleState ==
    /\ pcL = "l_state"
    /\ limit_packets' = [limit_packets EXCEPT ![lim_packet][LimState] =
                            LimitLines(limEvents)]
    /\ limWritten' = limWritten \cup {LimState}
    /\ pcL' = "l_pub"
    /\ UNCHANGED <<on, counter_overflow, encoder_ready, encoder_packets,
                   limit_ready, error_ready, error_packets,
                   hw, encv, lim_packet, hostv, sent, encPub, limPub, limEvents, drained, wraps, ub,
                   encWritten, limTickWraps, iterLog, errPub>>

\* lines 75-77 without the toggle of 'packet'
LimPublishNoToggle ==
    /\ pcL = "l_pub"
    /\ limit_ready' = lim_packet + 1
    /\ limPub' = Append(limPub, limit_packets[lim_packet])
    /\ limWritten' = {}
    /\ limTickWraps' = -1
    /\ pcL' = "l_while"
    /\ UNCHANGED <<on, counter_overflow, encoder_ready, encoder_packets,
                   limit_packets, error_ready, error_packets,
                   hw, encv, lim_packet, hostv, sent,
                   encPub, limEvents, drained, wraps, ub,
                   encWritten, iterLog, errPub>>

\* lines 75-77
LimPublish ==
    /\ pcL = "l_pub"
    /\ limit_ready' = lim_packet + 1
    /\ lim_packet' = 1 - lim_packet
    /\ limPub' = Append(limPub, limit_packets[lim_packet])
    /\ limWritten' = {}
    /\ limTickWraps' = -1
    /\ pcL' = "l_while"
    /\ UNCHANGED <<on, counter_overflow, encoder_ready, encoder_packets,
                   limit_packets, error_ready, error_packets,
                   hw, encv, hostv, sent, encPub, limEvents, drained, wraps, ub,
                   encWritten, iterLog, errPub>>

\* lines 82-84
LimHalt ==
    /\ pcL = "l_halt"
    /\ evtout1' = TRUE
    /\ pcL' = "halted"
    /\ UNCHANGED <<shared, iep_cnt, iep_sts, encv, lim_packet,
                   hostv, sent, hist>>

LimitPRU(maxEvents) ==
    \/ LimInit
    \/ LimConfig
    \/ LimWhile(maxEvents)
    \/ LimSampleClock
    \/ LimSampleOverflow
    \/ LimSampleState
    \/ LimPublish
    \/ LimHalt

(***************************************************************************)
(* BeagleboneGripper.c                                                     *)
(*                                                                         *)
(* The three drains (lines 196-217) and the three sends (lines 219-237)    *)
(* are the same statements over the encoder, limit and error words; hch    *)
(* is the channel the host is at: 1 encoder, 2 limit, 3 error.  No program *)
(* of the repository writes error_ready: the error drain finds 0 unless an *)
(* error is reported from outside.                                         *)
(***************************************************************************)
ENC == 1
LIM == 2
ERR == 3
\* the kind of a timeout datagram in 'sent'
TMO == 4

Ready(c) == CASE c = ENC -> encoder_ready
              [] c = LIM -> limit_ready
              [] c = ERR -> error_ready

Packets(c) == CASE c = ENC -> encoder_packets
                [] c = LIM -> limit_packets
                [] c = ERR -> error_packets

ToSend(c) == CASE c = ENC -> encoder_to_send
               [] c = LIM -> limit_to_send
               [] c = ERR -> error_to_send

Index(c) == CASE c = ENC -> encoder_index
              [] c = LIM -> limit_index
              [] c = ERR -> error_index

PacketsToSend(c) == CASE c = ENC -> ENCODER_PACKETS_TO_SEND
                      [] c = LIM -> LIMIT_PACKETS_TO_SEND
                      [] c = ERR -> ERROR_PACKETS_TO_SEND

\* sizeof of one structure of the channel, in words
InfoWords(c) == CASE c = ENC -> EncoderInfoWords
                  [] c = LIM -> LimitInfoWords
                  [] c = ERR -> ErrorInfoWords

\* sizeof(xxx_to_send) as sendto puts it on the wire: the whole array
RECURSIVE Concat(_, _, _)
Concat(batch, k, n) ==
    IF k >= n THEN <<>> ELSE batch[k] \o Concat(batch, k + 1, n)

Datagram(c) == Concat(ToSend(c), 0, PacketsToSend(c))

\* the test with >= for >
EncoderStaleAtThreshold(now, last) == (now - last) >= ENCODER_TIMEOUT * CLOCKS_PER_SEC

\* line 239: ((double)(current_time - encoder_time))/CLOCKS_PER_SEC > ENCODER_TIMEOUT
EncoderStale(now, last) == (now - last) > ENCODER_TIMEOUT * CLOCKS_PER_SEC

\* line 193
HostWhile ==
    /\ pcH = "while"
    /\ pcH' = IF on # 1 THEN "clock" ELSE "exit"
    /\ UNCHANGED <<shared, hw, encv, limv, hch, cpos, offset,
                   encoder_index, limit_index, error_index,
                   encoder_to_send, limit_to_send, error_to_send,
                   timeout_packet, current_time, encoder_time, sent,
                   encPub, limPub, limEvents, drained, wraps, ub,
                   encWritten, limWritten, limTickWraps, iterLog, errPub>>

\* line 194: clock() does not go back
HostClock(maxTime) ==
    /\ pcH = "clock"
    /\ \E t \in current_time..Max(maxTime, current_time) : current_time' = t
    /\ pcH' = "test"
    /\ hch' = ENC
    /\ UNCHANGED <<shared, hw, encv, limv, cpos, offset,
                   encoder_index, limit_index, error_index,
                   encoder_to_send, limit_to_send, error_to_send,
                   timeout_packet, encoder_time, sent, hist>>

\* lines 196, 204, 212
HostTest ==
    /\ pcH = "test"
    /\ IF Ready(hch) # 0
       THEN pcH' = "offset" /\ hch' = hch
       ELSE IF hch < ERR
            THEN pcH' = "test" /\ hch' = hch + 1
            ELSE pcH' = "send" /\ hch' = ENC
    /\ iterLog' = Append(iterLog, [op |-> "test", ch |-> hch,
                                    hit |-> Ready(hch) # 0])
    /\ UNCHANGED <<shared, hw, encv, limv, cpos, offset,
                   encoder_index, limit_index, error_index,
                   encoder_to_send, limit_to_send, error_to_send,
                   timeout_packet, current_time, encoder_time, sent,
                   encPub, limPub, limEvents, drained, wraps, ub,
                   encWritten, limWritten, limTickWraps, errPub>>

\* lines 197, 205, 213 without the - 1
HostOffsetNoDecrement ==
    /\ pcH = "offset"
    /\ offset' = Ready(hch)
    /\ cpos' = 1
    /\ pcH' = "copy"
    /\ UNCHANGED <<shared, hw, encv, limv, hch,
                   encoder_index, limit_index, error_index,
                   encoder_to_send, limit_to_send, error_to_send,
                   timeout_packet, current_time, encoder_time, sent, hist>>

\* lines 197, 205, 213: the ready word is read a second time.  -1 stands
\* for the unsigned 0 - 1.
HostOffset ==
    /\ pcH = "offset"
    /\ offset' = Ready(hch) - 1
    /\ cpos' = 1
    /\ pcH' = "copy"
    /\ UNCHANGED <<shared, hw, encv, limv, hch,
                   encoder_index, limit_index, error_index,
                   encoder_to_send, limit_to_send, error_to_send,
                   timeout_packet, current_time, encoder_time, sent, hist>>

\* lines 198, 206, 214: one word of the structure assignment
HostCopy ==
    /\ pcH = "copy"
    /\ LET inside == offset \in {0, 1} /\ Index(hch) \in DOMAIN ToSend(hch)
           word == Packets(hch)[offset][cpos]
       IN  /\ encoder_to_send' =
                 IF hch = ENC /\ inside
                 THEN [encoder_to_send EXCEPT ![encoder_index][cpos] = word]
                 ELSE encoder_to_send
           /\ limit_to_send' =
                 IF hch = LIM /\ inside
                 THEN [limit_to_send EXCEPT ![limit_index][cpos] = word]
                 ELSE limit_to_send
           /\ error_to_send' =
                 IF hch = ERR /\ inside
                 THEN [error_to_send EXCEPT ![error_index][cpos] = word]
                 ELSE error_to_send
           /\ ub' = (ub \/ ~inside)
    /\ IF cpos = InfoWords(hch)
       THEN pcH' = "ack" /\ cpos' = 1
       ELSE pcH' = "copy" /\ cpos' = cpos + 1
    /\ UNCHANGED <<shared, hw, encv, limv, hch, offset,
                   encoder_index, limit_index, error_index,
                   timeout_packet, current_time, encoder_time, sent,
                   encPub, limPub, limEvents, drained, wraps,
                   encWritten, limWritten, limTickWraps, iterLog, errPub>>

\* the ready word is left as it is
AcknowledgeNothing(c, ready) == ready

\* lines 200, 209, 216: the ready word of the channel just copied is cleared
Acknowledge(c, ready) == IF hch = c THEN 0 ELSE ready

\* lines 199-201, 208-209, 215-216 as the arms of one if / else if chain:
\* after a drain the host goes on to the sends
HostAckSkipsRest ==
    /\ pcH = "ack"
    /\ encoder_index' = IF hch = ENC THEN encoder_index + 1 ELSE encoder_index
    /\ limit_index' = IF hch = LIM THEN limit_index + 1 ELSE limit_index
    /\ error_index' = IF hch = ERR THEN error_index + 1 ELSE error_index
    /\ encoder_ready' = Acknowledge(ENC, encoder_ready)
    /\ limit_ready' = Acknowledge(LIM, limit_ready)
    /\ error_ready' = Acknowledge(ERR, error_ready)
    /\ encoder_time' = IF hch = ENC THEN current_time ELSE encoder_time
    /\ drained' = [drained EXCEPT ![hch] = @ + 1]
    /\ iterLog' = Append(iterLog, [op |-> "drain", ch |-> hch, hit |-> TRUE])
    /\ pcH' = "send" /\ hch' = ENC
    /\ UNCHANGED <<on, counter_overflow, encoder_packets, limit_packets,
                   error_packets, hw, encv, limv, cpos, offset,
                   encoder_to_send, limit_to_send, error_to_send,
                   timeout_packet, current_time, sent,
                   encPub, limPub, limEvents, wraps, ub,
                   encWritten, limWritten, limTickWraps, errPub>>

\* lines 199-201, 208-209, 215-216
HostAck ==
    /\ pcH = "ack"
    /\ encoder_index' = IF hch = ENC THEN encoder_index + 1 ELSE encoder_index
    /\ limit_index' = IF hch = LIM THEN limit_index + 1 ELSE limit_index
    /\ error_index' = IF hch = ERR THEN error_index + 1 ELSE error_index
    /\ encoder_ready' = Acknowledge(ENC, encoder_ready)
    /\ limit_ready' = Acknowledge(LIM, limit_ready)
    /\ error_ready' = Acknowledge(ERR, error_ready)
    /\ encoder_time' = IF hch = ENC THEN current_time ELSE encoder_time
    /\ drained' = [drained EXCEPT ![hch] = @ + 1]
    /\ iterLog' = Append(iterLog, [op |-> "drain", ch |-> hch, hit |-> TRUE])
    /\ IF hch < ERR
       THEN pcH' = "test" /\ hch' = hch + 1
       ELSE pcH' = "send" /\ hch' = ENC
    /\ UNCHANGED <<on, counter_overflow, encoder_packets, limit_packets,
                   error_packets, hw, encv, limv, cpos, offset,
                   encoder_to_send, limit_to_send, error_to_send,
                   timeout_packet, current_time, sent,
                   encPub, limPub, limEvents, wraps, ub,
                   encWritten, limWritten, limTickWraps, errPub>>

\* the fill count is left as it is
FlushedNothing(c, index) == index

\* lines 222, 229, 236: the fill count of the batch just sent is reset
Flushed(c, index) == IF hch = c THEN 0 ELSE index

\* lines 219-237
HostSend ==
    /\ pcH = "send"
    /\ IF Index(hch) = PacketsToSend(hch)
       THEN /\ sent' = Append(sent, [kind |-> hch, data |-> Datagram(hch),
                                     at |-> current_time])
            /\ encoder_index' = Flushed(ENC, encoder_index)
            /\ limit_index' = Flushed(LIM, limit_index)
            /\ error_index' = Flushed(ERR, error_index)
            /\ iterLog' = Append(iterLog, [op |-> "send", ch |-> hch, hit |-> TRUE])
       ELSE UNCHANGED <<sent, encoder_index, limit_index, error_index, iterLog>>
    /\ IF hch < ERR
       THEN pcH' = "send" /\ hch' = hch + 1
       ELSE pcH' = "stale" /\ hch' = ENC
    /\ UNCHANGED <<shared, hw, encv, limv, cpos, offset,
                   encoder_to_send, limit_to_send, error_to_send,
                   timeout_packet, current_time, encoder_time,
                   encPub, limPub, limEvents, drained, wraps, ub,
                   encWritten, limWritten, limTickWraps, errPub>>

\* lines 239-245 with a break out of the loop after the timeout is sent
HostStaleTerminates ==
    /\ pcH = "stale"
    /\ IF EncoderStale(current_time, encoder_time)
       THEN /\ timeout_packet' = [timeout_packet EXCEPT ![2] = ENCODER_TIMEOUT_FLAG]
            /\ sent' = Append(sent, [kind |-> TMO, data |-> timeout_packet',
                                     at |-> current_time])
            /\ encoder_time' = current_time
            /\ pcH' = "exit"
       ELSE /\ UNCHANGED <<timeout_packet, sent, encoder_time>>
            /\ pcH' = "while"
    /\ iterLog' = <<>>
    /\ UNCHANGED <<shared, hw, encv, limv, hch, cpos, offset,
                   encoder_index, limit_index, error_index,
                   encoder_to_send, limit_to_send, error_to_send,
                   current_time,
                   encPub, limPub, limEvents, drained, wraps, ub,
                   encWritten, limWritten, limTickWraps, errPub>>

\* lines 239-245
HostStale ==
    /\ pcH = "stale"
    /\ IF EncoderStale(current_time, encoder_time)
       THEN /\ timeout_packet' = [timeout_packet EXCEPT ![2] = ENCODER_TIMEOUT_FLAG]
            /\ sent' = Append(sent, [kind |-> TMO, data |-> timeout_packet',
                                     at |-> current_time])
            /\ encoder_time' = current_time
       ELSE UNCHANGED <<timeout_packet, sent, encoder_time>>
    /\ iterLog' = <<>>
    /\ pcH' = "while"
    /\ UNCHANGED <<shared, hw, encv, limv, hch, cpos, offset,
                   encoder_index, limit_index, error_index,
                   encoder_to_send, limit_to_send, error_to_send,
                   current_time,
                   encPub, limPub, limEvents, drained, wraps, ub,
                   encWritten, limWritten, limTickWraps, errPub>>

\* line 248
HostExit ==
    /\ pcH = "exit"
    /\ pcH' = IF on = 1 THEN "wait" ELSE "done"
    /\ UNCHANGED <<shared, hw, encv, limv, hch, cpos, offset,
                   encoder_index, limit_index, error_index,
                   encoder_to_send, limit_to_send, error_to_send,
                   timeout_packet, current_time, encoder_time, sent, hist>>

\* line 249: prussdrv_pru_wait_event(PRU_EVTOUT_1) returns once the event
\* has been raised
HostWaitEvent ==
    /\ pcH = "wait"
    /\ evtout1
    /\ pcH' = "disable"
    /\ UNCHANGED <<shared, hw, encv, limv, hch, cpos, offset,
                   encoder_index, limit_index, error_index,
                   encoder_to_send, limit_to_send, error_to_send,
                   timeout_packet, current_time, encoder_time, sent, hist>>

\* lines 250-253: both PRUs are disabled, whatever they are doing
HostTeardown ==
    /\ pcH = "disable"
    /\ pcE' = IF pcE = "halted" THEN pcE ELSE "disabled"
    /\ pcL' = IF pcL = "halted" THEN pcL ELSE "disabled"
    /\ pcH' = "done"
    /\ UNCHANGED <<shared, hw, enc_packet, enc_index, lim_packet,
                   hch, cpos, offset,
                   encoder_index, limit_index, error_index,
                   encoder_to_send, limit_to_send, error_to_send,
                   timeout_packet, current_time, encoder_time, sent, hist>>

Host(maxTime) ==
    \/ HostWhile
    \/ HostClock(maxTime)
    \/ HostTest
    \/ HostOffset
    \/ HostCopy
    \/ HostAck
    \/ HostSend
    \/ HostStale
    \/ HostExit
    \/ HostWaitEvent
    \/ HostTeardown

(***************************************************************************)
(* Specifications.                                                         *)
(***************************************************************************)
\* Both producers against the host; clock() stands still.
Next ==
    \/ EncoderPRU(MaxEncFills)
    \/ LimitPRU(MaxLimEvents)
    \/ Host(0)
    \/ StopRequest

Spec == Init /\ [][Next]_vars

\* The same, each of the three programs being given the processor again and
\* again: the two PRUs and the ARM core run in parallel.
FairSpec ==
    /\ Spec
    /\ WF_vars(EncoderPRU(MaxEncFills))
    /\ WF_vars(LimitPRU(MaxLimEvents))
    /\ WF_vars(Host(0))

\* The limit producer against the host.
NextLimit ==
    \/ EncoderPRU(MaxEncFillsLimit)
    \/ LimitPRU(MaxLimEventsLimit)
    \/ Host(0)
    \/ StopRequest

SpecLimit == Init /\ [][NextLimit]_vars

\* Both producers publish into both of their slots against the host.
NextPair ==
    \/ EncoderPRU(MaxEncFillsPair)
    \/ LimitPRU(MaxLimEventsPair)
    \/ Host(0)
    \/ StopRequest

SpecPair == Init /\ [][NextPair]_vars

\* The three channels against the host.
NextService ==
    \/ EncoderPRU(MaxEncFillsService)
    \/ LimitPRU(MaxLimEventsService)
    \/ ErrorReport(MaxErrorsService)
    \/ Host(0)
    \/ StopRequest

SpecService == Init /\ [][NextService]_vars

\* The host's staleness clock: clock() advances, no limit line is active.
NextTime ==
    \/ EncoderPRU(MaxEncFillsTime)
    \/ Host(MaxTime)
    \/ StopRequest

SpecTime == Init /\ [][NextTime]_vars

\* The encoder producer against the IEP counter.
NextEncClock ==
    \/ IepTick(MaxWraps)
    \/ EncoderPRU(MaxEncFillsClock)
    \/ StopRequest

SpecEncClock == InitClock /\ [][NextEncClock]_vars

\* Both producers against the IEP counter.
NextClock ==
    \/ IepTick(MaxWraps)
    \/ EncoderPRU(MaxEncFillsClock)
    \/ LimitPRU(MaxLimEventsClock)
    \/ StopRequest

SpecClock == InitClock /\ [][NextClock]_vars

(***************************************************************************)
(* Vocabulary of the properties.                                           *)
(***************************************************************************)
Published(c) == CASE c = ENC -> encPub
                  [] c = LIM -> limPub
                  [] c = ERR -> errPub

\* the slot the k-th publish of a channel went to: 0,1,0,1,...
SlotOf(k) == (k - 1) % 2

\* the datagrams of one kind, in the order sent
SentOf(c) == SelectSeq(sent, LAMBDA d : d.kind = c)

\* the host is inside its loop
InLoop == pcH \in {"while", "clock", "test", "offset", "copy", "ack", "send", "stale"}

\* the host is copying a slot of channel c: it has read the ready word to
\* compute the slot and has not yet cleared it
Copying(c) == pcH \in {"copy", "ack"} /\ hch = c

\* the k-th publish of channel c has gone out as a datagram
Delivered(c, k) ==
    \E i \in DOMAIN sent : sent[i].kind = c /\ sent[i].data = Published(c)[k]

\* ... or is whole in the send batch, acknowledged and waiting for sendto
InBatch(c, k) == Index(c) >= 1 /\ ToSend(c)[0] = Published(c)[k]

\* ... or is whole in its slot and either marked ready or being copied
Pending(c, k) ==
    /\ InLoop
    /\ Packets(c)[SlotOf(k)] = Published(c)[k]
    /\ \/ Ready(c) = SlotOf(k) + 1
       \/ Copying(c) /\ offset = SlotOf(k)

(***************************************************************************)
(* C1: no published buffer is lost.  While the acquisition runs, every     *)
(* buffer a producer has published has been dispatched, or is whole in the *)
(* send batch, or is still whole in its slot and marked ready or being     *)
(* copied by the host: its slot has not been written again, and its ready  *)
(* word has neither been overwritten by a later publish nor cleared by the *)
(* host, before the host copied it.                                        *)
(***************************************************************************)
C1_NoBufferLost ==
    on = 0 =>
        \A c \in {ENC, LIM} : \A k \in DOMAIN Published(c) :
            Delivered(c, k) \/ InBatch(c, k) \/ Pending(c, k)

(***************************************************************************)
(* C3: with a batch of one, every encoder datagram equals the contents of  *)
(* an encoder slot as it stood at one publish, word for word.              *)
(***************************************************************************)
C3_DatagramIsSnapshot ==
    \A i \in DOMAIN sent :
        sent[i].kind = ENC =>
            \E k \in DOMAIN encPub : sent[i].data = encPub[k]

(***************************************************************************)
(* C4: the host never reads the active buffer.  While the host is copying  *)
(* slot s of a channel, the producer's fill slot 'packet' is not s.        *)
(***************************************************************************)
C4_NeverReadsActive ==
    /\ Copying(ENC) => enc_packet # offset
    /\ Copying(LIM) => lim_packet # offset

(***************************************************************************)
(* C5: the producer handshake.  A producer sets a ready word to a nonzero  *)
(* value only when it is 0, and writes to a slot it has published before   *)
(* only when the ready word is 0.                                          *)
(***************************************************************************)
C5_ProducerHandshake ==
    [][ /\ (encoder_ready' # encoder_ready /\ encoder_ready' # 0)
              => encoder_ready = 0
        /\ (limit_ready' # limit_ready /\ limit_ready' # 0)
              => limit_ready = 0
        /\ (encoder_packets' # encoder_packets /\ Len(encPub) > enc_packet)
              => encoder_ready = 0
        /\ (limit_packets' # limit_packets /\ Len(limPub) > lim_packet)
              => limit_ready = 0
      ]_vars

(***************************************************************************)
(* C2: no double drain.  On every channel the drains the host has begun    *)
(* never exceed the publishes of the producer, and the datagrams of the    *)
(* channel never exceed its drains: one publish, at most one copy and      *)
(* dispatch.                                                               *)
(***************************************************************************)
\* drains of channel c, the one in progress included
DrainsBegun(c) ==
    drained[c] + (IF pcH \in {"offset", "copy", "ack"} /\ hch = c THEN 1 ELSE 0)

C2_NoDoubleDrain ==
    \A c \in {ENC, LIM, ERR} :
        /\ DrainsBegun(c) <= Len(Published(c))
        /\ Len(SentOf(c)) <= drained[c]

\* three encoder publishes of which the host drained and sent two, and a
\* limit publish drained and sent
C2_Witness ==
    /\ Len(encPub) = 3 /\ drained[ENC] = 2 /\ Len(SentOf(ENC)) = 2
    /\ Len(limPub) = 1 /\ drained[LIM] = 1 /\ Len(SentOf(LIM)) = 1

(***************************************************************************)
(* C6: timeout emission.  At the staleness check, when the time read at    *)
(* the top of the iteration exceeds the staleness clock by more than the   *)
(* threshold of 10 seconds, the host sends exactly one Timeout datagram of *)
(* type encoder (1) and sets the staleness clock to that time; when it     *)
(* does not, the host sends none and leaves the staleness clock alone.  No *)
(* other step sends a Timeout datagram, an encoder drain sets the          *)
(* staleness clock to the time of its iteration, and two consecutive       *)
(* Timeout datagrams are more than one threshold apart.                    *)
(***************************************************************************)
Threshold == ENCODER_TIMEOUT * CLOCKS_PER_SEC

TimeoutGap ==
    LET T == SentOf(TMO)
    IN  \A i \in 1..(Len(T) - 1) : T[i + 1].at - T[i].at > Threshold

C6_TimeoutEmission ==
    [][ /\ (pcH = "stale" /\ pcH' = "while") =>
              IF current_time - encoder_time > Threshold
              THEN /\ sent' = Append(sent,
                          [kind |-> TMO,
                           data |-> <<TIMEOUT_HEADER, ENCODER_TIMEOUT_FLAG>>,
                           at |-> current_time])
                   /\ encoder_time' = current_time
              ELSE /\ sent' = sent
                   /\ encoder_time' = encoder_time
        /\ ~(pcH = "stale" /\ pcH' = "while") => SentOf(TMO)' = SentOf(TMO)
        /\ drained'[ENC] # drained[ENC] => encoder_time' = current_time
        /\ TimeoutGap'
      ]_vars

\* a timeout, then an encoder drain, then two more timeouts
C6_Witness ==
    LET kinds == [i \in DOMAIN sent |-> sent[i].kind]
    IN  /\ Len(sent) = 3
        /\ kinds = <<TMO, ENC, TMO>>
        /\ sent[3].at - sent[1].at > Threshold
        /\ pcH = "while"

(***************************************************************************)
(* C7: limit ordering.  Every limit datagram is one of the published limit *)
(* records, and the datagrams go out in the order of their publishes.      *)
(***************************************************************************)
C7_LimitOrder ==
    LET D == SentOf(LIM)
    IN  \E f \in [DOMAIN D -> DOMAIN limPub] :
            /\ \A i \in DOMAIN D : D[i].data = limPub[f[i]]
            /\ \A i, j \in DOMAIN D : i < j => f[i] < f[j]

(***************************************************************************)
(* C8: monotonic timestamp reconstruction.  In the encoder buffer being    *)
(* filled, of two consecutive samples whose tick and overflow words are    *)
(* written the later has the larger or equal extended timestamp            *)
(* overflow * 2^W + tick, and the overflow word of a sample is not behind  *)
(* the overflow counter.                                                   *)
(***************************************************************************)
Extended(buf, i) == buf[EncOverflow(i)] * IepPeriod + buf[EncClock(i)]

C8_MonotonicTimestamps ==
    /\ \A i \in 0..(ENCODER_COUNTER_SIZE - 2) :
          (i + 1 < enc_index \/ (i + 1 = enc_index /\ pcE = "e_state")) =>
              Extended(encoder_packets[enc_packet], i)
                  <= Extended(encoder_packets[enc_packet], i + 1)
    /\ pcE = "e_state" =>
          encoder_packets[enc_packet][EncOverflow(enc_index)] >= counter_overflow

(***************************************************************************)
(* C9: one publish, one datagram.  Every encoder datagram has the size of  *)
(* the encoder record and carries the encoder tag; the encoder datagrams   *)
(* sent, plus the batch not yet sent, equal the encoder drains; and after  *)
(* a single publish the host sends at most one encoder datagram, exactly   *)
(* one at the end of the iteration that cleared the ready word.            *)
(***************************************************************************)
C9_OnePublishOneDatagram ==
    /\ \A i \in DOMAIN sent :
          sent[i].kind = ENC =>
              /\ Len(sent[i].data) = EncoderInfoWords
              /\ sent[i].data[1] = ENCODER_HEADER
    /\ Len(SentOf(ENC)) + encoder_index = drained[ENC]
    /\ Len(encPub) = 1 => Len(SentOf(ENC)) <= 1
    /\ (Len(encPub) = 1 /\ encoder_ready = 0 /\ pcH = "while")
          => Len(SentOf(ENC)) = 1

\* one buffer published, drained and sent
C9_Witness ==
    /\ Len(encPub) = 1
    /\ encoder_ready = 0
    /\ pcH = "while"
    /\ Len(SentOf(ENC)) = 1
    /\ sent[1].data = encPub[1]

(***************************************************************************)
(* C10: stop sequencing.  Whenever the host evaluates the loop condition,  *)
(* and from then on once it has left the loop, every batch fill count is 0 *)
(* and every drained buffer has been dispatched; and no datagram is sent   *)
(* after the loop has exited.                                              *)
(***************************************************************************)
Exited == pcH \in {"exit", "wait", "disable", "done"}

NoPartialBatch ==
    (pcH = "while" \/ Exited) =>
        /\ encoder_index = 0 /\ limit_index = 0 /\ error_index = 0
        /\ \A c \in {ENC, LIM, ERR} : Len(SentOf(c)) = drained[c]

C10_StopSequencing ==
    /\ NoPartialBatch
    /\ [][ NoPartialBatch' /\ (Exited => sent' = sent) ]_vars

\* the host has left the loop and torn down after draining both channels,
\* with a published encoder buffer left in the shared memory
C10_Witness ==
    /\ pcH = "done"
    /\ on = 1
    /\ drained[ENC] >= 1 /\ drained[LIM] >= 1
    /\ encoder_ready # 0

(***************************************************************************)
(* C11: teardown ordering.  The host has disabled the producers only when  *)
(* 'on' is 1 and both producers have raised their completion event and     *)
(* halted.                                                                 *)
(***************************************************************************)
C11_TeardownAfterBoth ==
    pcH = "done" => (on = 1 /\ pcE = "halted" /\ pcL = "halted")

EncSampleWords == 2..EncoderInfoWords
LimSampleWords == 2..LimitInfoWords

EncWriting == pcE \in {"e_clk", "e_ovf", "e_state"}
LimWriting == pcL \in {"l_clk", "l_ovf", "l_state"}

C14_WriteDiscipline ==
    /\ EncWriting => encoder_ready # enc_packet + 1
    /\ LimWriting => limit_ready # lim_packet + 1

\* both producers are writing into slot 1 while slot 0 is marked ready
C14_Witness ==
    /\ pcE = "e_state" /\ enc_packet = 1 /\ encoder_ready = 1
    /\ pcL = "l_state" /\ lim_packet = 1 /\ limit_ready = 1

(***************************************************************************)
(* C15: drain acknowledgment.  When the host is about to clear the ready   *)
(* word of a channel, having copied the slot 'offset', the word still      *)
(* holds offset + 1: the clear never erases a publish made while the copy  *)
(* was going on.                                                           *)
(***************************************************************************)
C15_AckErasesNothingNewer ==
    pcH = "ack" => Ready(hch) = offset + 1

(***************************************************************************)
(* C16: stop liveness.  Each program taking steps again and again, once    *)
(* 'on' is 1 the encoder producer and the limit producer each raise their  *)
(* completion event and halt, and the host leaves its loop, returns from   *)
(* the wait and completes the teardown.                                    *)
(***************************************************************************)
C16_StopLiveness ==
    (on = 1) ~> (pcE = "halted" /\ pcL = "halted" /\ pcH = "done")

(***************************************************************************)
(* C17: per-iteration channel service.  In every iteration the host tests  *)
(* the ready words in the order encoder, limit, error, draining a channel  *)
(* right after its test; every drain of the iteration comes before every   *)
(* send; the sends go in the same order; and the staleness check comes     *)
(* after them.  By the sends every channel has been tested and every       *)
(* channel found ready has been drained, and by the staleness check every  *)
(* channel drained has been sent: a limit or error buffer found ready is   *)
(* drained and sent in that same iteration, whether or not the encoder     *)
(* buffer was ready in it.                                                 *)
(***************************************************************************)
Rank(e) == CASE e.op = "test" -> 2 * e.ch - 1
             [] e.op = "drain" -> 2 * e.ch
             [] e.op = "send" -> 2 * ERR + e.ch

Logged(o, c) == \E i \in DOMAIN iterLog : iterLog[i].op = o /\ iterLog[i].ch = c

FoundReady(c) ==
    \E i \in DOMAIN iterLog :
        iterLog[i].op = "test" /\ iterLog[i].ch = c /\ iterLog[i].hit

C17_ChannelService ==
    /\ \A i, j \in DOMAIN iterLog : i < j => Rank(iterLog[i]) < Rank(iterLog[j])
    /\ pcH \in {"send", "stale"} =>
          \A c \in {ENC, LIM, ERR} :
              /\ Logged("test", c)
              /\ FoundReady(c) <=> Logged("drain", c)
    /\ pcH = "stale" =>
          \A c \in {ENC, LIM, ERR} : Logged("drain", c) <=> Logged("send", c)
    /\ pcH \in {"while", "clock"} => iterLog = <<>>

\* the three channels found ready, drained and sent in one iteration
C17_Witness ==
    /\ pcH = "stale"
    /\ \A c \in {ENC, LIM, ERR} : FoundReady(c) /\ Logged("send", c)
    /\ [i \in DOMAIN sent |-> sent[i].kind] = <<ENC, LIM, ERR>>
    /\ sent[3].data = errPub[1]

(***************************************************************************)
(* C18: the timeout datagram changes nothing else.  The step that sends a  *)
(* Timeout datagram changes the staleness clock and the type word of the   *)
(* timeout record, and leaves alone 'on', the overflow word, the ready     *)
(* words, the slots, the send batches and their fill counts; the host goes *)
(* back to its loop test; and no encoder buffer was drained in the         *)
(* iteration that sends it.                                                *)
(***************************************************************************)
SendsTimeout == Len(SentOf(TMO)') = Len(SentOf(TMO)) + 1

C18_TimeoutFrame ==
    [][ SendsTimeout =>
            /\ UNCHANGED <<shared, hw, encv, limv, current_time,
                           encoder_index, limit_index, error_index,
                           encoder_to_send, limit_to_send, error_to_send>>
            /\ timeout_packet'[1] = timeout_packet[1]
            /\ pcH' = "while"
            /\ ~Logged("drain", ENC)
      ]_vars

\* a timeout sent with a published encoder buffer waiting, the host back in
\* its loop; then, more than a threshold later, an iteration that drains
\* and sends the buffer and sends no timeout
C18_Witness ==
    /\ [i \in DOMAIN sent |-> sent[i].kind] = <<TMO, ENC>>
    /\ sent[2].at - sent[1].at > Threshold
    /\ sent[2].data = encPub[1]
    /\ pcH = "clock"

(***************************************************************************)
(* C19: index bounds.  Every ready word is 0, 1 or 2; while the host       *)
(* copies a slot, the slot index offset is 0 or 1 and the batch position   *)
(* is below the batch size; a batch fill count never exceeds the batch     *)
(* size; and no copy has indexed outside the slot pair or the batch.  This *)
(* holds although the host reads the ready word twice (test, then slot     *)
(* computation) and each producer writes 0 to its ready word when it       *)
(* starts.                                                                 *)
(***************************************************************************)
C19_IndexBounds ==
    /\ \A c \in {ENC, LIM, ERR} :
          /\ Ready(c) \in {0, 1, 2}
          /\ Index(c) \in 0..PacketsToSend(c)
    /\ pcH \in {"copy", "ack"} =>
          /\ offset \in {0, 1}
          /\ Index(hch) < PacketsToSend(hch)
    /\ ~ub

\* the host is copying slot 1 of the limit pair and has an encoder buffer
\* in its batch, the encoder producer having published again meanwhile
C19_Witness ==
    /\ pcH = "copy" /\ hch = LIM /\ offset = 1 /\ cpos = LimitInfoWords
    /\ encoder_index = 1 /\ encoder_ready = 2

(***************************************************************************)
(* C20: shared overflow accounting.  In a limit record whose tick was read *)
(* after the encoder producer had set up its overflow accounting, the      *)
(* overflow word equals the number of wraps of the IEP counter that had    *)
(* occurred when the tick was read: no wrap is counted twice and none is   *)
(* dropped.                                                                *)
(***************************************************************************)
C20_LimitOverflowExact ==
    (pcL \in {"l_state", "l_pub"} /\ limTickWraps >= 0) =>
        limit_packets[lim_packet][LimOverflow] = limTickWraps

=============================================================================
